---- MODULE Spec2Model ----
(***************************************************************************)
(* Idea2Prompt backend (src/server.js): an Express server over a MySQL     *)
(* pool.  Every route handler is an async function: it runs synchronously  *)
(* up to its first await, suspends at each storage query or upstream call, *)
(* and resumes when that I/O completes.  Handlers of different requests    *)
(* interleave at these suspension points.  The model has one action for    *)
(* the synchronous prefix of each route (middleware included) and one      *)
(* action for each resumption.                                             *)
(*                                                                         *)
(* Strings the code inspects character by character (idea, the generated   *)
(* text) are sequences of characters; strings the code only compares are   *)
(* TLA+ strings, "" being the empty (falsy) string.                        *)
(***************************************************************************)
EXTENDS Integers, Sequences, FiniteSets, Bags, TLC

VARIABLES
    users,          \* table registered_users: rows in insertion order
    prompts,        \* table prompts: set of rows
    nextPromptId,   \* AUTO_INCREMENT counter of table prompts
    login_history,  \* table login_history: rows in insertion order
    pendingLog,     \* logQuery INSERTs sent to the pool and not yet completed
    issued,         \* tokens handed out by jwt.sign in register / login
    now,            \* wall clock, in units of half a token lifetime
    reqs,           \* in-flight handler invocations, by slot
    resp,           \* the response sent by the last step (NoResp if none)
    upstream,       \* number of calls made to the generation endpoint
    logErrors       \* "Failed to log login attempt" lines on console.error

vars == <<users, prompts, nextPromptId, login_history, pendingLog, issued,
          now, reqs, resp, upstream, logErrors>>

---------------------------------------------------------------------------
(* Bounds of the model *)

\* handler invocations that may be suspended at the same time, in the
\* registration and login flows
MaxInflight == 2
\* the same, in the token and prompt flows
MaxProbes == 1
\* last instant of the clock
MaxTime == 2
\* rows of registered_users a run may create
MaxUsers == 2
\* logQuery INSERTs a run of the login flow may fire
MaxLog == 2
\* the same, in the token flow
MaxTokenLogins == 1
\* calls to the generation endpoint a run may make
MaxCalls == 1
\* calls to the generation endpoint in the store flow, the two that made
\* its seeded prompts included
MaxStoreCalls == 3

\* expiresIn: "24h", in clock units
TokenTTL == 2

\* the slots of the flow being run
Slots == DOMAIN reqs

JWT_SECRET == "secret"

---------------------------------------------------------------------------
(* Password Hasher: bcrypt.hash / bcrypt.compare *)

bcryptHash(password) == <<"$2b$10$", password>>

bcryptCompare(password, password_hash) == password_hash = bcryptHash(password)

---------------------------------------------------------------------------
(* Token Issuer / Verifier: jwt.sign / jwt.verify *)

NoToken == [form |-> "none", userId |-> 0, username |-> "", iat |-> 0,
            exp |-> 0, sig |-> ""]

\* a string that is not a JWT
GarbageToken == [NoToken EXCEPT !.form = "garbage"]

\* the empty string after "Bearer "
EmptyToken == [NoToken EXCEPT !.form = "empty"]

\* jwt.sign({userId, username}, JWT_SECRET, {expiresIn: "24h"}) at time t
jwtSign(userId, username, t) ==
    [form |-> "jwt", userId |-> userId, username |-> username, iat |-> t,
     exp |-> t + TokenTTL, sig |-> JWT_SECRET]

\* variant: verification with ignoreExpiration
jwtVerifyErrIgnoreExpiration(token, t) ==
    \/ token.form # "jwt"
    \/ token.sig # JWT_SECRET

\* variant: the signature not checked
jwtVerifyErrNoSignature(token, t) ==
    \/ token.form # "jwt"
    \/ t >= token.exp

\* jwt.verify(token, JWT_SECRET, cb) yields err at time t
jwtVerifyErr(token, t) ==
    \/ token.form # "jwt"
    \/ token.sig # JWT_SECRET
    \/ t >= token.exp

\* the decoded payload handed to the callback as `user`
jwtPayload(token) ==
    [userId |-> token.userId, username |-> token.username,
     iat |-> token.iat, exp |-> token.exp]

NoUser == [userId |-> 0, username |-> "", iat |-> 0, exp |-> 0]

---------------------------------------------------------------------------
(* Authorization header and the authenticateToken middleware *)

\* no Authorization header
HdrAbsent == [kind |-> "absent", tok |-> NoToken]

\* "<scheme> <token>": two words separated by one space
HdrBearer(tok) == [kind |-> "bearer", tok |-> tok]

\* a header of a single word: the token without a scheme
HdrBare(tok) == [kind |-> "bare", tok |-> tok]

\* authHeader && authHeader.split(" ")[1]; NoToken stands for undefined
HeaderToken(hdr) ==
    IF hdr.kind = "bearer" THEN hdr.tok ELSE NoToken

\* !token
TokenFalsy(token) == token.form \in {"none", "empty"}

\* variant: next() called without looking at err
authenticateTokenIgnoreErr(hdr, t) ==
    IF TokenFalsy(HeaderToken(hdr)) THEN 401 ELSE 0

\* status authenticateToken answers with, 0 when it calls next()
authenticateToken(hdr, t) ==
    IF TokenFalsy(HeaderToken(hdr)) THEN 401
    ELSE IF jwtVerifyErr(HeaderToken(hdr), t) THEN 403
    ELSE 0

---------------------------------------------------------------------------
(* Requests, handler invocations and responses *)

\* req.body / req.params of a request; fields a route does not read stay at
\* their defaults
NoInput == [username |-> "", email |-> "", password |-> "",
            idea |-> [t |-> "undefined", v |-> <<>>], category |-> "",
            userId |-> 0, id |-> 0]

\* locals a suspended handler holds across an await
NoLocals == [passwordHash |-> <<>>, generatedPrompt |-> <<>>, calls |-> 0,
             response |-> [fetch |-> "none", ok |-> FALSE, hasText |-> FALSE,
                           text |-> <<>>]]

IdleReq == [pc |-> "idle", kind |-> "none", hdr |-> HdrAbsent,
            user |-> NoUser, in |-> NoInput, tmp |-> NoLocals]

\* a handler invocation of route `kind`, at its first action
NewReq(kind, hdr, in) ==
    [pc |-> "start", kind |-> kind, hdr |-> hdr, user |-> NoUser,
     in |-> in, tmp |-> NoLocals]

NoRespUser == [id |-> 0, username |-> "", email |-> ""]

\* res.status(status).json({error}) for request req
Reply(req, status, error) ==
    [req |-> req, status |-> status, error |-> error, token |-> NoToken,
     id |-> 0, user |-> NoRespUser, rows |-> <<>>, prompt |-> <<>>,
     fault |-> FALSE]

\* the same from a catch block entered because a storage query rejected
Fault(req, status, error) == [Reply(req, status, error) EXCEPT !.fault = TRUE]

\* no response
NoResp == Reply(IdleReq, 0, "")

\* the handler of req has ended without sending a response: the request
\* stays open and nothing on the server will answer it
Unanswered(req) == Reply(req, 0, "")

Idle(s) == reqs[s].pc = "idle"

\* the slot a newly dispatched handler is stored in
FreeSlot == CHOOSE s \in Slots : Idle(s) /\ \A r \in Slots : r < s => ~Idle(r)

HasFreeSlot == \E s \in Slots : Idle(s)

InFlight(kind) == {s \in Slots : reqs[s].kind = kind /\ ~Idle(s)}

\* handler of slot s sends response r and ends
Finish(s, r) ==
    /\ reqs' = [reqs EXCEPT ![s] = IdleReq]
    /\ resp' = r

\* handler of slot s suspends again as record q
Suspend(s, q) ==
    /\ reqs' = [reqs EXCEPT ![s] = q]
    /\ resp' = NoResp

\* a new handler either answers at once (status # 0) or suspends at pc
Dispatch(q, status, error, pc) ==
    IF status # 0
    THEN /\ resp' = Reply(q, status, error)
         /\ UNCHANGED reqs
    ELSE /\ HasFreeSlot
         /\ reqs' = [reqs EXCEPT ![FreeSlot] = [q EXCEPT !.pc = pc]]
         /\ resp' = NoResp

---------------------------------------------------------------------------
(* Credential Store: table registered_users *)

Usernames == {"", "ann", "bob"}
Emails == {"", "a@x", "b@x"}
Passwords == {"", "pw1", "pw2"}
\* the emails login is tried with: one of them is never registered
LoginEmails == Emails \cup {"z@x"}

UserRows == {users[i] : i \in DOMAIN users}

\* variant: the WHERE clause joined by AND
checkUserQueryAnd(email, username) ==
    {u \in UserRows : u.email = email /\ u.username = username}

\* SELECT id FROM registered_users WHERE email = ? OR username = ?
checkUserQuery(email, username) ==
    {u \in UserRows : u.email = email \/ u.username = username}

\* INSERT INTO registered_users (username, email, password_hash): the new row
insertUserQuery(username, email, passwordHash) ==
    [id |-> Len(users) + 1, username |-> username, email |-> email,
     password_hash |-> passwordHash]

\* SELECT * FROM registered_users WHERE email = ?
loginQuery(email) == {u \in UserRows : u.email = email}

---------------------------------------------------------------------------
(* POST /api/register *)

\* !username || !email || !password
registerMissingField(in) ==
    in.username = "" \/ in.email = "" \/ in.password = ""

\* variant: result.affectedRows taken for the id of the new row
registerTokenAffectedRows(insertId, username, t) == jwtSign(1, username, t)

\* the token of the 201 response
registerToken(insertId, username, t) == jwtSign(insertId, username, t)

ReceiveRegister ==
    \E username \in Usernames, email \in Emails, password \in Passwords :
        LET in == [NoInput EXCEPT !.username = username, !.email = email,
                                  !.password = password]
            q == NewReq("register", HdrAbsent, in)
        IN  /\ Len(users) + Cardinality(InFlight("register")) < MaxUsers
            /\ Dispatch(q, IF registerMissingField(in) THEN 400 ELSE 0,
                        "All fields are required", "reg_check")
            /\ UNCHANGED <<users, prompts, nextPromptId, login_history,
                           pendingLog, issued, now, upstream, logErrors>>

\* checkUserQuery completes; on no match bcrypt.hash runs and insertUserQuery
\* is sent
RegisterCheck(s) ==
    /\ reqs[s].pc = "reg_check"
    /\ \E ok \in BOOLEAN :
        LET q == reqs[s]
            existingUsers == checkUserQuery(q.in.email, q.in.username)
        IN  IF ~ok
            THEN Finish(s, Fault(q, 500, "Server error during registration"))
            ELSE IF Cardinality(existingUsers) > 0
            THEN Finish(s, Reply(q, 400, "Email or username already exists"))
            ELSE Suspend(s, [q EXCEPT !.pc = "reg_insert",
                               !.tmp.passwordHash = bcryptHash(q.in.password)])
    /\ UNCHANGED <<users, prompts, nextPromptId, login_history, pendingLog,
                   issued, now, upstream, logErrors>>

\* insertUserQuery completes; the token is signed and 201 sent
RegisterInsert(s) ==
    /\ reqs[s].pc = "reg_insert"
    /\ \E ok \in BOOLEAN :
        LET q == reqs[s]
            row == insertUserQuery(q.in.username, q.in.email,
                                   q.tmp.passwordHash)
            token == registerToken(row.id, q.in.username, now)
        IN  IF ~ok
            THEN /\ Finish(s, Fault(q, 500, "Server error during registration"))
                 /\ UNCHANGED <<users, issued>>
            ELSE /\ users' = Append(users, row)
                 /\ issued' = issued \cup {token}
                 /\ Finish(s, [Reply(q, 201, "") EXCEPT
                                 !.token = token,
                                 !.user = [id |-> row.id,
                                           username |-> q.in.username,
                                           email |-> q.in.email]])
    /\ UNCHANGED <<prompts, nextPromptId, login_history, pendingLog, now,
                   upstream, logErrors>>

---------------------------------------------------------------------------
(* POST /api/login and the login_history audit write *)

\* !email || !password
loginMissingField(in) == in.email = "" \/ in.password = ""

\* variant: the attempt always recorded as a success
logEntryAlwaysSuccess(userId, validPassword) ==
    [user_id |-> userId, success |-> TRUE]

\* the parameters [user.id, validPassword] of logQuery
logEntry(userId, validPassword) ==
    [user_id |-> userId, success |-> validPassword]

\* variant: await db.query(logQuery, ...), the row being written before the
\* handler goes on
awaitLogQuery(entry) ==
    [pending |-> pendingLog, history |-> Append(login_history, entry)]

\* db.query(logQuery, ...).catch(...): the INSERT is handed to the pool and
\* the handler goes on without awaiting it
fireLogQuery(entry) ==
    [pending |-> pendingLog (+) SetToBag({entry}), history |-> login_history]

\* variant: the response status not depending on the comparison
loginStatusAlways200(validPassword) == 200

\* status of the response once the password has been compared
loginStatus(validPassword) == IF validPassword THEN 200 ELSE 401

ReceiveLogin(maxLog) ==
    \E email \in LoginEmails, password \in Passwords :
        LET in == [NoInput EXCEPT !.email = email, !.password = password]
            q == NewReq("login", HdrAbsent, in)
        IN  /\ Len(login_history) + BagCardinality(pendingLog) + logErrors
                 + Cardinality(InFlight("login")) < maxLog
            /\ Dispatch(q, IF loginMissingField(in) THEN 400 ELSE 0,
                        "Email and password are required", "login_select")
            /\ UNCHANGED <<users, prompts, nextPromptId, login_history,
                           pendingLog, issued, now, upstream, logErrors>>

\* the SELECT by email completes; bcrypt.compare runs, logQuery is fired and
\* the response is sent
LoginSelect(s) ==
    /\ reqs[s].pc = "login_select"
    /\ \E ok \in BOOLEAN :
        LET q == reqs[s]
            results == loginQuery(q.in.email)
        IN  IF ~ok
            THEN /\ Finish(s, Fault(q, 500, "Server error during login"))
                 /\ UNCHANGED <<pendingLog, login_history, issued>>
            ELSE IF Cardinality(results) = 0
            THEN /\ Finish(s, Reply(q, 401, "Invalid credentials"))
                 /\ UNCHANGED <<pendingLog, login_history, issued>>
            ELSE \E user \in results :
                LET validPassword ==
                        bcryptCompare(q.in.password, user.password_hash)
                    fired == fireLogQuery(logEntry(user.id, validPassword))
                    token == jwtSign(user.id, user.username, now)
                IN  /\ pendingLog' = fired.pending
                    /\ login_history' = fired.history
                    /\ IF loginStatus(validPassword) # 200
                       THEN /\ Finish(s, Reply(q, loginStatus(validPassword),
                                               "Invalid credentials"))
                            /\ UNCHANGED issued
                       ELSE /\ issued' = issued \cup {token}
                            /\ Finish(s, [Reply(q, 200, "") EXCEPT
                                            !.token = token,
                                            !.user = [id |-> user.id,
                                                username |-> user.username,
                                                email |-> user.email]])
    /\ UNCHANGED <<users, prompts, nextPromptId, now, upstream, logErrors>>

\* a fired logQuery INSERT is executed by the storage
LogQueryDone ==
    \E entry \in BagToSet(pendingLog) :
        /\ pendingLog' = pendingLog (-) SetToBag({entry})
        /\ login_history' = Append(login_history, entry)
        /\ resp' = NoResp
        /\ UNCHANGED <<users, prompts, nextPromptId, issued, now, reqs,
                       upstream, logErrors>>

\* a fired logQuery INSERT fails; the .catch handler only logs
LogQueryFail ==
    \E entry \in BagToSet(pendingLog) :
        /\ pendingLog' = pendingLog (-) SetToBag({entry})
        /\ logErrors' = logErrors + 1
        /\ resp' = NoResp
        /\ UNCHANGED <<users, prompts, nextPromptId, login_history, issued,
                       now, reqs, upstream>>

---------------------------------------------------------------------------
(* Protected routes: what a client may send as Authorization *)

\* a well-formed token signed with another key, claiming user 1
ForgedToken ==
    [jwtSign(1, "ann", 0) EXCEPT !.sig = "forged", !.exp = MaxTime + 1]

\* another, claiming a user id no row of registered_users has
ForgedStranger ==
    [jwtSign(MaxUsers + 1, "eve", 0) EXCEPT !.sig = "forged",
                                            !.exp = MaxTime + 1]

Headers ==
    {HdrAbsent}
        \cup {HdrBearer(t) : t \in issued \cup {GarbageToken, EmptyToken,
                                                 ForgedToken, ForgedStranger}}
        \cup {HdrBare(t) : t \in issued}

authError(status) ==
    IF status = 401 THEN "Access token required"
    ELSE "Invalid or expired token"

\* the request as the route handler sees it: req.user is set when
\* authenticateToken calls next()
Authenticated(q) ==
    IF authenticateToken(q.hdr, now) = 0
    THEN [q EXCEPT !.user = jwtPayload(HeaderToken(q.hdr))]
    ELSE q

---------------------------------------------------------------------------
(* Prompt Store: table prompts; GET /api/prompts *)

\* SELECT * FROM prompts WHERE user_id = ?
promptsOf(userId) == {p \in prompts : p.user_id = userId}

\* variant: ORDER BY created_at ASC
listQueryAscending(userId) ==
    LET S == promptsOf(userId)
        n == Cardinality(S)
    IN  {sq \in [1..n -> S] :
            /\ \A i, j \in 1..n : i # j => sq[i] # sq[j]
            /\ \A i, j \in 1..n : i < j => sq[i].created_at <= sq[j].created_at}

\* ... ORDER BY created_at DESC: the orders the storage may return the rows
\* in (rows with equal created_at come in any order)
listQuery(userId) ==
    LET S == promptsOf(userId)
        n == Cardinality(S)
    IN  {sq \in [1..n -> S] :
            /\ \A i, j \in 1..n : i # j => sq[i] # sq[j]
            /\ \A i, j \in 1..n : i < j => sq[i].created_at >= sq[j].created_at}

ReceiveList ==
    \E hdr \in Headers :
        LET q == Authenticated(NewReq("list", hdr, NoInput))
            status == authenticateToken(hdr, now)
        IN  /\ Dispatch(q, status, authError(status), "list_select")
            /\ UNCHANGED <<users, prompts, nextPromptId, login_history,
                           pendingLog, issued, now, upstream, logErrors>>

ListSelect(s) ==
    /\ reqs[s].pc = "list_select"
    /\ \E ok \in BOOLEAN :
        LET q == reqs[s]
        IN  IF ~ok
            THEN Finish(s, Fault(q, 500, "Failed to fetch prompts"))
            ELSE \E results \in listQuery(q.user.userId) :
                    Finish(s, [Reply(q, 200, "") EXCEPT !.rows = results])
    /\ UNCHANGED <<users, prompts, nextPromptId, login_history, pendingLog,
                   issued, now, upstream, logErrors>>

-------------------------------------------------------------------------------------------------------------------------------------------------
(* Generation Mediator: generateAIPrompt *)

Space == " "

\* String.prototype.trim on a sequence of characters
RECURSIVE trimStart(_)
trimStart(str) ==
    IF str # <<>> /\ Head(str) = Space THEN trimStart(Tail(str)) ELSE str

RECURSIVE trimEnd(_)
trimEnd(str) ==
    IF str # <<>> /\ str[Len(str)] = Space
    THEN trimEnd(SubSeq(str, 1, Len(str) - 1))
    ELSE str

trim(str) == trimEnd(trimStart(str))

\* what the generation endpoint may answer to one fetch: the fetch rejects,
\* a non-2xx status, 2xx without candidates, 2xx whose first text segment
\* is blank, 2xx with a text
UpstreamOutcomes ==
    {[fetch |-> "rejects", ok |-> FALSE, hasText |-> FALSE, text |-> <<>>],
     [fetch |-> "resolves", ok |-> FALSE, hasText |-> FALSE, text |-> <<>>],
     [fetch |-> "resolves", ok |-> TRUE, hasText |-> FALSE, text |-> <<>>],
     [fetch |-> "resolves", ok |-> TRUE, hasText |-> TRUE,
      text |-> <<Space, Space>>],
     [fetch |-> "resolves", ok |-> TRUE, hasText |-> TRUE,
      text |-> <<Space, "P", Space>>]}

\* data?.candidates?.[0]?.content?.parts?.[0]?.text?.trim(); <<>> stands for
\* both undefined and the empty string, which !generatedText treats alike
generatedText(outcome) ==
    IF outcome.hasText THEN trim(outcome.text) ELSE <<>>

\* variant: the !generatedText check left out
generateAIPromptThrowsNoEmptyCheck(outcome) ==
    \/ outcome.fetch = "rejects"
    \/ ~outcome.ok

\* generateAIPrompt throws: fetch rejected, !response.ok, or !generatedText
generateAIPromptThrows(outcome) ==
    \/ outcome.fetch = "rejects"
    \/ ~outcome.ok
    \/ generatedText(outcome) = <<>>

---------------------------------------------------------------------------
(* POST /api/generate-prompt *)

Undefined == [t |-> "undefined", v |-> <<>>]
Str(v) == [t |-> "string", v |-> v]
\* a JSON value that is truthy and not a string, such as 42
NonString == [t |-> "number", v |-> <<>>]

Ideas == {Undefined, Str(<<>>), Str(<<Space, Space>>),
          Str(<<Space, "b", Space>>), NonString}

\* "" stands for an absent or empty category
Categories == {"", "Writing"}

\* !idea
ideaFalsy(idea) ==
    idea.t = "undefined" \/ (idea.t = "string" /\ idea.v = <<>>)

\* variant: !idea alone
ideaMissingNoTrim(idea) == ideaFalsy(idea)

\* !idea || idea.trim().length === 0, for an idea that has a trim method
ideaMissing(idea) == ideaFalsy(idea) \/ Len(trim(idea.v)) = 0

\* idea.trim() raises TypeError: idea is truthy and not a string
trimRaises(idea) == ~ideaFalsy(idea) /\ idea.t # "string"

\* variant: the category stored as sent
categoryAsSent(category) == category

\* category || "General"
categoryOrGeneral(category) == IF category = "" THEN "General" ELSE category

\* the row INSERT INTO prompts (user_id, category, idea, generated_prompt)
\* creates at time t
insertPromptQuery(userId, category, idea, generatedPrompt, t) ==
    [id |-> nextPromptId, user_id |-> userId,
     category |-> categoryOrGeneral(category), idea |-> trim(idea.v),
     generated_prompt |-> generatedPrompt, created_at |-> t]

\* the userId clients put in the body, which the handler does not read:
\* the id of the second user
BodyUserIds == {2}

\* variant: a failed attempt made again before the error is raised
fetchTwice(calls) == calls + 2

\* the calls made to the generation endpoint once generateAIPrompt has
\* issued its fetch
fetchOnce(calls) == calls + 1

\* authenticateToken, the validation of idea, and the call of
\* generateAIPrompt up to its fetch.  When idea.trim() raises outside the
\* try block the promise of the async handler rejects: the router either
\* passes the error to the error middleware, which answers 500, or drops
\* it, and the request stays open without an answer, depending on the
\* major version of express installed.
ReceiveGenerate(maxCalls) ==
    \E hdr \in Headers :
        LET status == authenticateToken(hdr, now)
        IN  /\ IF status # 0
               THEN \* rejected by the middleware, which does not read the body
                    /\ Dispatch(NewReq("generate", hdr, NoInput), status,
                                authError(status), "none")
                    /\ UNCHANGED upstream
               ELSE \E idea \in Ideas, category \in Categories,
                       bodyUserId \in BodyUserIds :
                    LET in == [NoInput EXCEPT !.idea = idea,
                                              !.category = category,
                                              !.userId = bodyUserId]
                        q == Authenticated(NewReq("generate", hdr, in))
                    IN  IF trimRaises(idea)
                        THEN /\ \/ resp' = Reply(q, 500,
                                                 "Internal server error")
                                \/ resp' = Unanswered(q)
                             /\ UNCHANGED <<reqs, upstream>>
                        ELSE IF ideaMissing(idea)
                        THEN /\ Dispatch(q, 400,
                                   "Idea is required and cannot be empty",
                                   "none")
                             /\ UNCHANGED upstream
                        ELSE /\ upstream < maxCalls
                             /\ Dispatch([q EXCEPT !.tmp.calls =
                                             fetchOnce(q.tmp.calls)],
                                         0, "", "gen_fetch")
                             /\ upstream' = fetchOnce(upstream)
            /\ UNCHANGED <<users, prompts, nextPromptId, login_history,
                           pendingLog, issued, now, logErrors>>

\* the fetch settles; generateAIPrompt returns the text or throws
GenerateFetch(s) ==
    /\ reqs[s].pc = "gen_fetch"
    /\ \E outcome \in UpstreamOutcomes :
        LET q == [reqs[s] EXCEPT !.tmp.response = outcome]
        IN  IF generateAIPromptThrows(outcome)
            THEN Finish(s, Reply(q, 500, "Failed to generate prompt"))
            ELSE Suspend(s, [q EXCEPT !.pc = "gen_insert",
                        !.tmp.generatedPrompt = generatedText(outcome)])
    /\ UNCHANGED <<users, prompts, nextPromptId, login_history, pendingLog,
                   issued, now, upstream, logErrors>>

\* the INSERT INTO prompts completes
GenerateInsert(s) ==
    /\ reqs[s].pc = "gen_insert"
    /\ \E ok \in BOOLEAN :
        LET q == reqs[s]
            row == insertPromptQuery(q.user.userId, q.in.category, q.in.idea,
                                     q.tmp.generatedPrompt, now)
        IN  IF ~ok
            THEN /\ Finish(s, Fault(q, 500, "Failed to generate prompt"))
                 /\ UNCHANGED <<prompts, nextPromptId>>
            ELSE /\ prompts' = prompts \cup {row}
                 /\ nextPromptId' = nextPromptId + 1
                 /\ Finish(s, [Reply(q, 200, "") EXCEPT
                                 !.id = row.id,
                                 !.prompt = q.tmp.generatedPrompt])
    /\ UNCHANGED <<users, login_history, pendingLog, issued, now, upstream,
                   logErrors>>

---------------------------------------------------------------------------
(* DELETE /api/prompts/:id *)

\* the :id values clients send: the ids given to rows so far and the next
\* one, which no row has had
PromptIds == 1..nextPromptId

\* variant: WHERE id = ? alone
deleteWhereId(p, id, userId) == p.id = id

\* WHERE id = ? AND user_id = ?
deleteWhere(p, id, userId) == p.id = id /\ p.user_id = userId

\* variant: the matching rows reported and left in the table
deleteRowsKept(rows, affected) == rows

\* the table once the DELETE statement has removed the rows it matched, in
\* one step of the storage
deleteRows(rows, affected) == rows \ affected

\* variant: the result of the DELETE not looked at
deleteStatusAlways200(affectedRows) == 200

\* if (result.affectedRows === 0) 404, else 200
deleteStatus(affectedRows) == IF affectedRows = 0 THEN 404 ELSE 200

ReceiveDelete ==
    \E hdr \in Headers :
        LET status == authenticateToken(hdr, now)
        IN  /\ IF status # 0
               THEN Dispatch(NewReq("delete", hdr, NoInput), status,
                             authError(status), "none")
               ELSE \E id \in PromptIds :
                    Dispatch(Authenticated(NewReq("delete", hdr,
                                 [NoInput EXCEPT !.id = id])),
                             0, "", "del_query")
            /\ UNCHANGED <<users, prompts, nextPromptId, login_history,
                           pendingLog, issued, now, upstream, logErrors>>

\* the DELETE completes; affectedRows decides the status
DeleteQuery(s) ==
    /\ reqs[s].pc = "del_query"
    /\ \E ok \in BOOLEAN :
        LET q == reqs[s]
            affected == {p \in prompts :
                            deleteWhere(p, q.in.id, q.user.userId)}
        IN  IF ~ok
            THEN /\ Finish(s, Fault(q, 500, "Failed to delete prompt"))
                 /\ UNCHANGED prompts
            ELSE /\ prompts' = deleteRows(prompts, affected)
                 /\ Finish(s, Reply(q, deleteStatus(Cardinality(affected)),
                         IF deleteStatus(Cardinality(affected)) = 404
                         THEN "Prompt not found or user not authorized"
                         ELSE ""))
    /\ UNCHANGED <<users, nextPromptId, login_history, pendingLog, issued,
                   now, upstream, logErrors>>

-----
(* Time *)

Tick ==
    /\ now < MaxTime
    /\ now' = now + 1
    /\ resp' = NoResp
    /\ UNCHANGED <<users, prompts, nextPromptId, login_history, pendingLog,
                   issued, reqs, upstream, logErrors>>

-------------------------------------------------------------------------------------------------------------------------------------------------
(* Registration flow, from an empty database *)

InitRegister ==
    /\ users = <<>>
    /\ prompts = {}
    /\ nextPromptId = 1
    /\ login_history = <<>>
    /\ pendingLog = EmptyBag
    /\ issued = {}
    /\ now = 0
    /\ reqs = [s \in 1..MaxInflight |-> IdleReq]
    /\ resp = NoResp
    /\ upstream = 0
    /\ logErrors = 0

NextRegister ==
    \/ ReceiveRegister
    \/ \E s \in Slots : RegisterCheck(s)
    \/ \E s \in Slots : RegisterInsert(s)

SpecRegister == InitRegister /\ [][NextRegister]_vars

---------------------------------------------------------------------------
(* Login flow.  The database holds two users, as left by the registration  *)
(* flow when ann and bob have registered at time 0; their clients hold the *)
(* tokens of the two 201 responses.                                        *)

SeedUsers ==
    <<[id |-> 1, username |-> "ann", email |-> "a@x",
       password_hash |-> bcryptHash("pw1")],
      [id |-> 2, username |-> "bob", email |-> "b@x",
       password_hash |-> bcryptHash("pw2")]>>

SeedTokens == {registerToken(u.id, u.username, 0) :
                  u \in {SeedUsers[i] : i \in DOMAIN SeedUsers}}

InitLogin ==
    /\ users = SeedUsers
    /\ prompts = {}
    /\ nextPromptId = 1
    /\ login_history = <<>>
    /\ pendingLog = EmptyBag
    /\ issued = SeedTokens
    /\ now = 0
    /\ reqs = [s \in 1..MaxInflight |-> IdleReq]
    /\ resp = NoResp
    /\ upstream = 0
    /\ logErrors = 0

NextLogin ==
    \/ ReceiveLogin(MaxLog)
    \/ \E s \in Slots : LoginSelect(s)
    \/ LogQueryDone
    \/ LogQueryFail

SpecLogin == InitLogin /\ [][NextLogin]_vars

---------------------------------------------------------------------------
(* Token flow: tokens are issued by login (and were by registration), time *)
(* passes, and clients present them on a protected route.                  *)

InitToken ==
    /\ users = SeedUsers
    /\ prompts = {}
    /\ nextPromptId = 1
    /\ login_history = <<>>
    /\ pendingLog = EmptyBag
    /\ issued = SeedTokens
    /\ now = 0
    /\ reqs = [s \in 1..MaxProbes |-> IdleReq]
    /\ resp = NoResp
    /\ upstream = 0
    /\ logErrors = 0

NextToken ==
    \/ ReceiveLogin(MaxTokenLogins)
    \/ \E s \in Slots : LoginSelect(s)
    \/ LogQueryDone
    \/ LogQueryFail
    \/ ReceiveList
    \/ \E s \in Slots : ListSelect(s)
    \/ Tick

SpecToken == InitToken /\ [][NextToken]_vars

-------------------------------------------------------------------------------------------------------------------------------------------------
(* Prompt flow: generation, listing and deletion by the two seeded users.  *)
(* The clock stands at the expiry of the tokens of their registration at   *)
(* time 0; each has logged in again one unit later and holds that token    *)
(* too.  The token flow reaches this state once two logins are allowed,    *)
(* as the registration flow reaches the state the login and token flows    *)
(* start in.                                                               *)

PromptTokens ==
    SeedTokens \cup {jwtSign(u.id, u.username, 1) :
                        u \in {SeedUsers[i] : i \in DOMAIN SeedUsers}}

InitPrompt ==
    /\ users = SeedUsers
    /\ prompts = {}
    /\ nextPromptId = 1
    /\ login_history = <<logEntry(1, TRUE), logEntry(2, TRUE)>>
    /\ pendingLog = EmptyBag
    /\ issued = PromptTokens
    /\ now = TokenTTL
    /\ reqs = [s \in 1..MaxProbes |-> IdleReq]
    /\ resp = NoResp
    /\ upstream = 0
    /\ logErrors = 0

NextPrompt ==
    \/ ReceiveGenerate(MaxCalls)
    \/ \E s \in Slots : GenerateFetch(s)
    \/ \E s \in Slots : GenerateInsert(s)
    \/ ReceiveList
    \/ \E s \in Slots : ListSelect(s)
    \/ ReceiveDelete
    \/ \E s \in Slots : DeleteQuery(s)

SpecPrompt == InitPrompt /\ [][NextPrompt]_vars

---------------------------------------------------------------------------
(* Store flow: generation, listing and deletion over a store that holds    *)
(* prompts already.  One unit after their registration each seeded user    *)
(* has generated one prompt at time 0 with the token of the registration;  *)
(* more may be generated, at later times.                                  *)

\* the rows the two generations at time 0 have left in prompts
SeedPrompts ==
    {[id |-> 1, user_id |-> 1, category |-> "General", idea |-> <<"b">>,
      generated_prompt |-> <<"P">>, created_at |-> 0],
     [id |-> 2, user_id |-> 2, category |-> "Writing", idea |-> <<"b">>,
      generated_prompt |-> <<"P">>, created_at |-> 0]}

InitStore ==
    /\ users = SeedUsers
    /\ prompts = SeedPrompts
    /\ nextPromptId = Cardinality(SeedPrompts) + 1
    /\ login_history = <<>>
    /\ pendingLog = EmptyBag
    /\ issued = SeedTokens
    /\ now = 1
    /\ reqs = [s \in 1..MaxProbes |-> IdleReq]
    /\ resp = NoResp
    /\ upstream = Cardinality(SeedPrompts)
    /\ logErrors = 0

NextStore ==
    \/ ReceiveGenerate(MaxStoreCalls)
    \/ \E s \in Slots : GenerateFetch(s)
    \/ \E s \in Slots : GenerateInsert(s)
    \/ ReceiveList
    \/ \E s \in Slots : ListSelect(s)
    \/ ReceiveDelete
    \/ \E s \in Slots : DeleteQuery(s)
    \/ Tick

SpecStore == InitStore /\ [][NextStore]_vars

---------------------------------------------------------------------------
(* Race flow: deletions and listings in flight together over the seeded    *)
(* store.                                                                  *)

InitRace ==
    /\ users = SeedUsers
    /\ prompts = SeedPrompts
    /\ nextPromptId = Cardinality(SeedPrompts) + 1
    /\ login_history = <<>>
    /\ pendingLog = EmptyBag
    /\ issued = SeedTokens
    /\ now = 1
    /\ reqs = [s \in 1..MaxInflight |-> IdleReq]
    /\ resp = NoResp
    /\ upstream = Cardinality(SeedPrompts)
    /\ logErrors = 0

NextRace ==
    \/ ReceiveList
    \/ \E s \in Slots : ListSelect(s)
    \/ ReceiveDelete
    \/ \E s \in Slots : DeleteQuery(s)

SpecRace == InitRace /\ [][NextRace]_vars

---------------------------------------------------------------------------
(* Properties of the registration flow *)

\* the handler of slot s sends its response in this step
Responds(s) == ~Idle(s) /\ reqs'[s].pc = "idle"

\* a handler is dispatched into slot s in this step
Starts(s) == Idle(s) /\ reqs'[s].pc # "idle"

\* a request is answered in the step that receives it
AnsweredAtOnce == resp' # NoResp /\ resp'.req.pc = "start"

\* the rows holding the email or the username of registration input in
Taken(in) == {i \in DOMAIN users : users[i].email = in.email
                                      \/ users[i].username = in.username}

\* C2: no two rows of registered_users share a username, and no two share
\* an email, whatever the interleaving of concurrent registrations.
C2_UniqueIdentity ==
    \A i, j \in DOMAIN users :
        i # j => /\ users[i].username # users[j].username
                 /\ users[i].email # users[j].email

\* C5: a registration with all three fields non-empty whose email and
\* username are unused when its existence query runs, and whose storage
\* queries succeed, goes on to the INSERT, is answered 201, adds exactly one
\* row carrying its username and email under a fresh id, and returns a
\* token whose claims carry that id, the id of the response's user object.
C5_RegisterSucceeds ==
    [][\A s \in Slots :
        /\ (reqs[s].pc = "reg_check" /\ reqs'[s] # reqs[s]
              /\ Taken(reqs[s].in) = {})
            => \/ reqs'[s].pc = "reg_insert"
               \/ Responds(s) /\ resp'.fault
        /\ (reqs[s].pc = "reg_insert" /\ Responds(s))
            => \/ resp'.fault /\ resp'.status = 500 /\ users' = users
               \/ /\ resp'.status = 201
                  /\ Len(users') = Len(users) + 1
                  /\ SubSeq(users', 1, Len(users)) = users
                  /\ LET row == users'[Len(users')]
                     IN  /\ row.username = reqs[s].in.username
                         /\ row.email = reqs[s].in.email
                         /\ \A i \in DOMAIN users : users[i].id # row.id
                         /\ resp'.token.form = "jwt"
                         /\ resp'.token.sig = JWT_SECRET
                         /\ resp'.token.userId = row.id
                         /\ resp'.token.username = row.username
                         /\ resp'.user.id = row.id
                         /\ resp'.token \in issued'
      ]_vars

\* a second registration is answered 201 with a token for the second row
C5_Witness ==
    /\ resp.req.kind = "register"
    /\ resp.status = 201
    /\ Len(users) = 2
    /\ resp.token.userId = 2
    /\ users[2].username = resp.req.in.username
    /\ users[2].email = resp.req.in.email

\* C6: a registration that reuses the email or the username of a row
\* already in registered_users is answered 400 (500 if its existence query
\* itself fails), gets no token, and leaves registered_users unchanged; rows
\* once inserted stay, so this covers every request received after the
\* earlier registration completed.
C6_DuplicateRejected ==
    [][/\ \A s \in Slots :
            (reqs[s].pc = "reg_check" /\ reqs'[s] # reqs[s]
               /\ Taken(reqs[s].in) # {})
             => /\ Responds(s)
                /\ resp'.status = IF resp'.fault THEN 500 ELSE 400
                /\ resp'.token = NoToken
                /\ users' = users
                /\ issued' = issued
       /\ (AnsweredAtOnce /\ resp'.req.kind = "register")
             => /\ resp'.status = 400
                /\ resp'.token = NoToken
                /\ users' = users
                /\ issued' = issued
       /\ Len(users') >= Len(users)
       /\ SubSeq(users', 1, Len(users)) = users
      ]_vars

\* bob's email with another username is refused while bob's row exists
C6_Witness ==
    /\ resp.req.kind = "register"
    /\ resp.status = 400
    /\ ~resp.fault
    /\ resp.error = "Email or username already exists"
    /\ \E i \in DOMAIN users :
          /\ users[i].email = resp.req.in.email
          /\ users[i].username # resp.req.in.username
    /\ \A i \in DOMAIN users : users[i].username # resp.req.in.username

---------------------------------------------------------------------------
(* Properties of the login flow *)

\* the rows login input in may be checked against
Known(in) == {i \in DOMAIN users : users[i].email = in.email}

\* logQuery INSERTs fired in this step
FiredNow == pendingLog' (-) pendingLog

\* login_history only grows, by one row a step, and keeps its rows
AppendOnly ==
    /\ Len(login_history') \in {Len(login_history), Len(login_history) + 1}
    /\ SubSeq(login_history', 1, Len(login_history)) = login_history

\* C9 as stated: every login request that passes field validation (and
\* whose SELECT succeeds) records one attempt whose success flag tells
\* whether it was answered 200, and login_history is append-only.
C9_EveryAttemptLogged ==
    [][/\ \A s \in Slots :
            (reqs[s].pc = "login_select" /\ Responds(s) /\ ~resp'.fault)
             => \E e \in [user_id : 1..Len(users), success : BOOLEAN] :
                   /\ FiredNow = SetToBag({e})
                   /\ e.success = (resp'.status = 200)
       /\ AppendOnly
      ]_vars

\* C9 as the code has it: a login request whose email matches a row of
\* registered_users fires exactly one logQuery INSERT, for that user's id,
\* whose success flag tells whether the request was answered 200; a request
\* whose email matches no row is answered 401 and fires none, as does one
\* whose SELECT fails (500) or that fails field validation (400); a fired
\* INSERT adds its row to login_history when the storage executes it, and
\* login_history is append-only.
C9_KnownUserAttemptLogged ==
    [][/\ \A s \in Slots :
            (reqs[s].pc = "login_select" /\ Responds(s))
             => IF resp'.fault \/ Known(reqs[s].in) = {}
                THEN /\ pendingLog' = pendingLog
                     /\ resp'.status = IF resp'.fault THEN 500 ELSE 401
                ELSE \E i \in Known(reqs[s].in) :
                        /\ FiredNow = SetToBag(
                              {[user_id |-> users[i].id,
                                success |-> (resp'.status = 200)]})
                        /\ pendingLog (-) pendingLog' = EmptyBag
                        /\ resp'.status \in {200, 401}
       /\ (AnsweredAtOnce /\ resp'.req.kind = "login")
             => pendingLog' = pendingLog /\ resp'.status = 400
       /\ (pendingLog (-) pendingLog' # EmptyBag)
             => \E e \in BagToSet(pendingLog) :
                   /\ pendingLog' = pendingLog (-) SetToBag({e})
                   /\ login_history' \in {login_history,
                                          Append(login_history, e)}
       /\ (login_history' # login_history)
             => pendingLog (-) pendingLog' # EmptyBag
       /\ AppendOnly
      ]_vars

\* a failed attempt on ann's account is being recorded after a successful
\* one has been
C9_Witness ==
    /\ resp.req.kind = "login"
    /\ resp.status = 401
    /\ resp.req.in.email = "a@x"
    /\ BagIn([user_id |-> 1, success |-> FALSE], pendingLog)
    /\ login_history = <<[user_id |-> 1, success |-> TRUE]>>

\* C10: for a login request that found a user, the response is 200 with a
\* token when the password matches the stored hash and 401 without a token
\* otherwise; it is sent while the audit INSERT is still pending, whatever
\* becomes of that INSERT; the completion or failure of an audit INSERT
\* answers no request and resumes no handler; and 500 is sent only when the
\* SELECT fails.
C10_AuditDoesNotGate ==
    [][/\ \A s \in Slots :
            (reqs[s].pc = "login_select" /\ Responds(s) /\ ~resp'.fault
               /\ Known(reqs[s].in) # {})
             => \E i \in Known(reqs[s].in) :
                  LET match == users[i].password_hash
                                   = <<"$2b$10$", reqs[s].in.password>>
                      e == [user_id |-> users[i].id, success |-> match]
                  IN  /\ resp'.status = IF match THEN 200 ELSE 401
                      /\ (resp'.token # NoToken) = match
                      /\ match => /\ resp'.token.userId = users[i].id
                                  /\ resp'.user.id = users[i].id
                      /\ BagIn(e, pendingLog')
                      /\ CopiesIn(e, pendingLog') = CopiesIn(e, pendingLog) + 1
                      /\ login_history' = login_history
       /\ (pendingLog (-) pendingLog' # EmptyBag)
             => resp' = NoResp /\ reqs' = reqs /\ issued' = issued
       /\ (resp'.status = 500 /\ resp'.req.kind = "login") => resp'.fault
      ]_vars

\* a login is answered 200 while its audit INSERT is pending, after an
\* earlier audit INSERT has failed
C10_Witness ==
    /\ resp.req.kind = "login"
    /\ resp.status = 200
    /\ resp.token \in issued
    /\ BagCardinality(pendingLog) >= 1
    /\ logErrors >= 1

---------------------------------------------------------------------------
(* Properties of the token flow *)

ProtectedKinds == {"generate", "list", "delete"}

\* the token a request carries after a scheme word, NoToken if none
Presented(q) == IF q.hdr.kind = "bearer" THEN q.hdr.tok ELSE NoToken

\* token was issued by register or login and its 24 hours have not elapsed
Unexpired(token) == token \in issued /\ now < token.iat + TokenTTL

\* C3: a token issued by register or login for user U and presented on a
\* protected route less than 24 hours after issuance is accepted, and the
\* handler runs and answers with req.user carrying U's id and username;
\* presented 24 hours after issuance or later it is answered 403 and no
\* handler runs.  Whatever else has happened in between (logins, audit
\* writes, other requests) makes no difference.
C3_TokenWindow ==
    [][/\ \A s \in Slots :
            (Starts(s) /\ reqs'[s].kind \in ProtectedKinds)
             => LET t == Presented(reqs'[s])
                IN  /\ Unexpired(t)
                    /\ reqs'[s].user.userId = t.userId
                    /\ reqs'[s].user.username = t.username
                    /\ \E i \in DOMAIN users :
                          /\ users[i].id = t.userId
                          /\ users[i].username = t.username
       /\ (AnsweredAtOnce /\ resp'.req.kind \in ProtectedKinds
             /\ Presented(resp'.req) \in issued)
             => /\ ~Unexpired(Presented(resp'.req))
                /\ resp'.status = 403
                /\ reqs' = reqs
       /\ \A s \in Slots :
            (Responds(s) /\ reqs[s].kind \in ProtectedKinds)
             => /\ resp'.req.user.userId = Presented(reqs[s]).userId
                /\ resp'.req.user.username = Presented(reqs[s]).username
                /\ resp'.status \notin {401, 403}
      ]_vars

\* bob's listing is answered with the token of a login one unit after his
\* registration, at the instant his registration token has expired
C3_Witness ==
    /\ resp.req.kind = "list"
    /\ resp.status = 200
    /\ resp.req.hdr.kind = "bearer"
    /\ resp.req.hdr.tok.iat = 1
    /\ resp.req.hdr.tok.userId = 2
    /\ resp.req.user.userId = 2
    /\ resp.req.user.username = "bob"
    /\ now = TokenTTL

---------------------------------------------------------------------------
(* Properties of the prompt flow *)

\* the rows of a listing, as a set
RowsOf(rows) == {rows[i] : i \in DOMAIN rows}

\* C1: a DELETE of prompt p with the token of a user other than p's owner
\* is answered 404 (500 if the storage query itself fails), never 200, and
\* leaves the store as it is; a listing answered 200 holds exactly the
\* stored prompts of the token's user, so p is still in its owner's; and a
\* prompt leaves the store only in the step that completes a DELETE for its
\* id whose verified token carries its owner's id, which is answered 200.
C1_OnlyOwnerDeletes ==
    [][/\ \A s \in Slots :
            (reqs[s].pc = "del_query" /\ Responds(s)
               /\ \E p \in prompts : /\ p.id = reqs[s].in.id
                                     /\ p.user_id # reqs[s].user.userId)
             => /\ resp'.status = IF resp'.fault THEN 500 ELSE 404
                /\ prompts' = prompts
       /\ \A p \in prompts \ prompts' :
            \E s \in Slots :
                /\ reqs[s].pc = "del_query"
                /\ Responds(s)
                /\ reqs[s].in.id = p.id
                /\ Presented(reqs[s]) \in issued
                /\ Presented(reqs[s]).userId = p.user_id
                /\ reqs[s].user.userId = p.user_id
                /\ resp'.status = 200
       /\ \A s \in Slots :
            (reqs[s].pc = "list_select" /\ Responds(s) /\ ~resp'.fault)
             => /\ resp'.status = 200
                /\ RowsOf(resp'.rows)
                     = {p \in prompts' : p.user_id = reqs[s].user.userId}
      ]_vars

\* bob's DELETE of ann's prompt has just been answered 404 and the prompt
\* is in the store
C1_Witness ==
    /\ resp.req.kind = "delete"
    /\ resp.status = 404
    /\ resp.req.user.username = "bob"
    /\ \E p \in prompts : /\ p.id = resp.req.in.id
                          /\ p.user_id = 1
                          /\ p.user_id # resp.req.user.userId

\* C4: on the three protected routes nothing of the handler happens unless
\* the request's token has been verified: a handler is dispatched, the
\* generation endpoint called, and the prompt store changed, only for a
\* request carrying an issued, unexpired token.  A request without a
\* token is answered 401, one with a malformed, wrongly signed or expired
\* token 403, and then no upstream call is made, the store is unchanged
\* and no handler runs.
C4_VerifiedBeforeEffects ==
    [][/\ \A s \in Slots :
            Starts(s) => /\ reqs'[s].kind \in ProtectedKinds
                         /\ Unexpired(Presented(reqs'[s]))
       /\ (upstream' # upstream)
             => \E s \in Slots : /\ Starts(s)
                                 /\ reqs'[s].kind = "generate"
                                 /\ Unexpired(Presented(reqs'[s]))
       /\ (prompts' # prompts)
             => \E s \in Slots : /\ Responds(s)
                                 /\ Presented(reqs[s]) \in issued
                                 /\ reqs[s].user.userId
                                      = Presented(reqs[s]).userId
       /\ (AnsweredAtOnce /\ resp'.req.kind \in ProtectedKinds)
             => LET q == resp'.req
                    t == q.hdr.tok
                IN  /\ q.hdr.kind = "absent" => resp'.status = 401
                    /\ (q.hdr.kind = "bearer" /\ t.form = "garbage")
                          => resp'.status = 403
                    /\ (q.hdr.kind = "bearer" /\ t.form = "jwt"
                          /\ t.sig # JWT_SECRET) => resp'.status = 403
                    /\ (q.hdr.kind = "bearer" /\ t \in issued
                          /\ now >= t.iat + TokenTTL) => resp'.status = 403
                    /\ ~Unexpired(Presented(q)) => resp'.status \in {401, 403}
                    /\ Unexpired(Presented(q)) => resp'.status \notin {401, 403}
                    /\ resp'.status \in {401, 403}
                          => /\ upstream' = upstream
                             /\ prompts' = prompts
                             /\ nextPromptId' = nextPromptId
                             /\ reqs' = reqs
      ]_vars

\* a generate request with ann's expired registration token has just been
\* answered 403 while a prompt of hers is in the store
C4_Witness ==
    /\ resp.req.kind = "generate"
    /\ resp.status = 403
    /\ resp.req.hdr.kind = "bearer"
    /\ resp.req.hdr.tok \in issued
    /\ resp.req.hdr.tok.userId = 1
    /\ now >= resp.req.hdr.tok.iat + TokenTTL
    /\ \E p \in prompts : p.user_id = 1

\* idea is absent, empty, or only whitespace
Blank(idea) ==
    \/ idea.t = "undefined"
    \/ idea.t = "string" /\ \A i \in DOMAIN idea.v : idea.v[i] = Space

\* C7: an authorised generate-prompt request whose idea is absent, empty or
\* only whitespace is answered 400 in the step that receives it, without a
\* call to the generation endpoint, without a row inserted and without a
\* handler left to make either later; the endpoint is called only for a
\* request whose idea is not blank.
C7_BlankIdeaRejected ==
    [][/\ (AnsweredAtOnce /\ resp'.req.kind = "generate"
             /\ resp'.status \notin {401, 403} /\ Blank(resp'.req.in.idea))
             => /\ resp'.status = 400
                /\ upstream' = upstream
                /\ prompts' = prompts
                /\ reqs' = reqs
       /\ \A s \in Slots :
            (Starts(s) /\ reqs'[s].kind = "generate")
             => ~Blank(reqs'[s].in.idea)
       /\ (upstream' # upstream)
             => \E s \in Slots : /\ Starts(s)
                                 /\ reqs'[s].kind = "generate"
                                 /\ ~Blank(reqs'[s].in.idea)
      ]_vars

\* ann's whitespace-only idea has just been answered 400
C7_Witness ==
    /\ resp.req.kind = "generate"
    /\ resp.status = 400
    /\ resp.req.user.username = "ann"
    /\ resp.req.in.idea = Str(<<Space, Space>>)
    /\ upstream = 0

\* the upstream answer is a success status with a text that is not blank
Usable(response) ==
    /\ response.fetch = "resolves"
    /\ response.ok
    /\ response.hasText
    /\ \E i \in DOMAIN response.text : response.text[i] # Space

\* C8: every row of prompts holds a non-empty generated text, and a row is
\* added only in the step that completes the INSERT of a generate-prompt
\* request whose one upstream call returned a success status with a
\* non-blank text, the text of the row; when the upstream call fails,
\* returns a non-success status or returns no usable text, the request is
\* answered 500 and the store is unchanged.
C8_PromptOnlyOnSuccess ==
    [][/\ \A p \in prompts' : p.generated_prompt # <<>>
       /\ \A p \in prompts' \ prompts :
            \E s \in Slots :
                /\ reqs[s].pc = "gen_insert"
                /\ Responds(s)
                /\ reqs[s].tmp.calls = 1
                /\ Usable(reqs[s].tmp.response)
                /\ p.generated_prompt = reqs[s].tmp.generatedPrompt
                /\ p.generated_prompt = resp'.prompt
                /\ resp'.status = 200
                /\ prompts' = prompts \cup {p}
       /\ \A s \in Slots :
            (reqs[s].pc = "gen_fetch" /\ reqs'[s] # reqs[s])
             => IF Responds(s)
                THEN /\ ~Usable(resp'.req.tmp.response)
                     /\ resp'.status = 500
                     /\ prompts' = prompts
                ELSE /\ reqs'[s].pc = "gen_insert"
                     /\ Usable(reqs'[s].tmp.response)
                     /\ reqs'[s].tmp.generatedPrompt # <<>>
                     /\ prompts' = prompts
      ]_vars

\* a success response whose text is blank has just been answered 500, the
\* store being empty
C8_Witness ==
    /\ resp.req.kind = "generate"
    /\ resp.status = 500
    /\ resp.req.tmp.response.ok
    /\ resp.req.tmp.response.hasText
    /\ resp.req.tmp.response.text = <<Space, Space>>
    /\ prompts = {}

---------------------------------------------------------------------------
(* Properties of the login flow: credentials *)

\* the rows of registered_users whose email is that of login input in
Matching(in) == {u \in UserRows : u.email = in.email}

\* C11: a login response carries a token only if it is a 200 whose request
\* names the email of a stored user and a password that verifies against
\* that user's stored hash, and the token's claims are that user's id and
\* username; a request whose email matches no user, or whose password
\* verifies against no matching user's hash, is answered 401 "Invalid
\* credentials" without a token (500 without a token if the lookup itself
\* fails); a request missing email or password is answered 400 in the step
\* that receives it, before any query is sent.
C11_TokenOnlyForValidCredentials ==
    [][(resp' # NoResp /\ resp'.req.kind = "login")
        => LET in == resp'.req.in
               valid == {u \in Matching(in) :
                            bcryptCompare(in.password, u.password_hash)}
           IN  /\ resp'.token # NoToken
                    => /\ resp'.status = 200
                       /\ \E u \in valid :
                            /\ resp'.token.userId = u.id
                            /\ resp'.token.username = u.username
                            /\ resp'.user.id = u.id
                       /\ resp'.token \in issued'
               /\ resp'.status = 200 => resp'.token # NoToken
               /\ issued' # issued => resp'.status = 200
               /\ (in.email = "" \/ in.password = "")
                    => /\ AnsweredAtOnce
                       /\ resp'.status = 400
                       /\ resp'.token = NoToken
                       /\ UNCHANGED <<reqs, pendingLog, login_history>>
               /\ (in.email # "" /\ in.password # "" /\ valid = {})
                    => /\ resp'.status = IF resp'.fault THEN 500 ELSE 401
                       /\ resp'.status = 401
                            => resp'.error = "Invalid credentials"
                       /\ resp'.token = NoToken
                       /\ issued' = issued
      ]_vars

\* a login with ann's email and bob's password has just been answered 401
\* "Invalid credentials" without a token
C11_Witness ==
    /\ resp.req.kind = "login"
    /\ resp.req.in.email = "a@x"
    /\ resp.req.in.password = "pw2"
    /\ resp.status = 401
    /\ resp.error = "Invalid credentials"
    /\ resp.token = NoToken

---------------------------------------------------------------------------
(* Properties of the store flow *)

\* C12: a listing answered to a request with the token of user U holds
\* exactly the rows of prompts that are in the store at that moment and
\* whose user_id is U, each once: no row of another user and no deleted
\* row; and it is ordered newest first, no row coming before one with a
\* later created_at.  The listing leaves the store as it is.
C12_ListOwnNewestFirst ==
    [][\A s \in Slots :
        (reqs[s].pc = "list_select" /\ Responds(s) /\ ~resp'.fault)
         => LET U == Presented(reqs[s]).userId
                rows == resp'.rows
            IN  /\ resp'.status = 200
                /\ Presented(reqs[s]) \in issued
                /\ RowsOf(rows) = {p \in prompts : p.user_id = U}
                /\ Len(rows) = Cardinality(RowsOf(rows))
                /\ \A i, j \in DOMAIN rows :
                        i < j => rows[i].created_at >= rows[j].created_at
                /\ prompts' = prompts
      ]_vars

\* a listing of two rows, the later one first, has just been answered
\* while the store also holds a row of another user
C12_Witness ==
    /\ resp.req.kind = "list"
    /\ resp.status = 200
    /\ Len(resp.rows) = 2
    /\ resp.rows[1].created_at > resp.rows[2].created_at
    /\ \E p \in prompts : p.user_id # resp.req.user.userId

\* C13: every row of prompts has the id of a row of registered_users as
\* its user_id, tokens signed with another key being refused.
C13_PromptOwnerExists ==
    \A p \in prompts : \E u \in UserRows : u.id = p.user_id

\* a generate-prompt request whose token is signed with another key and
\* claims a user id no user has, has just been refused while the store
\* holds a prompt
C13_Witness ==
    /\ resp.req.kind = "generate"
    /\ resp.req.hdr = HdrBearer(ForgedStranger)
    /\ resp.status = 403
    /\ \A u \in UserRows : u.id # ForgedStranger.userId
    /\ prompts # {}

\* C14: a generate-prompt request calls the generation endpoint at most
\* once: the count of calls grows by one exactly in the step that accepts a
\* request with a verified token and an idea that is not blank, and in no
\* other step; a request answered without a call is one whose token was
\* refused or whose idea is blank or not a string; and when the one call
\* fails (the fetch rejects, a non-success status, no usable text) the
\* handler answers 500 in that very step, making no further call and never
\* waiting on a fetch again.
C14_SingleUpstreamCall ==
    [][/\ upstream' \in {upstream, upstream + 1}
       /\ upstream' = upstream + 1
            <=> \E s \in Slots : /\ Starts(s)
                                 /\ reqs'[s].pc = "gen_fetch"
       /\ \A s \in Slots :
            /\ Starts(s) /\ reqs'[s].pc = "gen_fetch"
                 => /\ reqs'[s].tmp.calls = 1
                    /\ Presented(reqs'[s]) \in issued
                    /\ ~Blank(reqs'[s].in.idea)
            /\ ~Starts(s) /\ reqs'[s].pc = "gen_fetch"
                 => reqs'[s] = reqs[s]
            /\ reqs'[s].kind = "generate" => reqs'[s].tmp.calls <= 1
            /\ (reqs[s].pc = "gen_fetch" /\ reqs'[s] # reqs[s])
                 => LET response == IF Responds(s)
                                    THEN resp'.req.tmp.response
                                    ELSE reqs'[s].tmp.response
                    IN  /\ ~Usable(response)
                            => /\ Responds(s)
                               /\ resp'.status = 500
                               /\ resp'.req.tmp.calls = 1
                        /\ Usable(response) => reqs'[s].pc = "gen_insert"
       /\ (resp' # NoResp /\ resp'.req.kind = "generate")
            => /\ resp'.req.tmp.calls <= 1
               /\ AnsweredAtOnce
                    => /\ resp'.req.tmp.calls = 0
                       /\ \/ ~Unexpired(Presented(resp'.req))
                          \/ Blank(resp'.req.in.idea)
                          \/ resp'.req.in.idea.t # "string"
      ]_vars

\* the one call of a request was rejected and the request has just been
\* answered 500, one call having been made in all
C14_Witness ==
    /\ resp.req.kind = "generate"
    /\ resp.status = 500
    /\ resp.req.tmp.response.fetch = "rejects"
    /\ resp.req.tmp.calls = 1
    /\ upstream = 1

\* C15: a request whose handling raises a fault the handler does not catch
\* is answered 500 and not left open without an answer: in particular a
\* generate-prompt request whose idea is truthy and not a string, where
\* idea.trim() raises before the try block is entered, ends in a 500
\* response.
C15_UncaughtFaultAnswered ==
    (resp.req.kind = "generate" /\ trimRaises(resp.req.in.idea))
        => /\ resp # Unanswered(resp.req)
           /\ resp.status = 500

\* res is str without the spaces at its two ends
TrimmedOf(str, res) ==
    \E i \in 1..(Len(str) + 1), j \in 0..Len(str) :
        /\ res = SubSeq(str, i, j)
        /\ \A k \in 1..(i - 1) : str[k] = Space
        /\ \A k \in (j + 1)..Len(str) : str[k] = Space
        /\ res # <<>> => res[1] # Space /\ res[Len(res)] # Space

\* C16: a generate-prompt request is answered 200 exactly when one row was
\* inserted for it, in the same step: the row's user_id is the userId
\* claim of the request's verified token, whatever userId the body names;
\* its idea is the submitted idea without the whitespace around it; its
\* category is the submitted one, or "General" when none or an empty one
\* was submitted; its generated_prompt is the text in the response; and
\* the id in the response is the row's, which no other row has.  A row is
\* added in no other step.  When the upstream call has succeeded and the
\* INSERT fails, the answer is 500 and the store is unchanged.
C16_GenerateInsertsOneRow ==
    [][/\ (resp' # NoResp /\ resp'.req.kind = "generate"
             /\ resp'.status = 200)
            => \E p \in prompts' \ prompts :
                LET q == resp'.req
                IN  /\ prompts' = prompts \cup {p}
                    /\ Presented(q) \in issued
                    /\ p.user_id = Presented(q).userId
                    /\ q.in.idea.t = "string"
                    /\ TrimmedOf(q.in.idea.v, p.idea)
                    /\ p.category = IF q.in.category = "" THEN "General"
                                    ELSE q.in.category
                    /\ p.generated_prompt = resp'.prompt
                    /\ p.generated_prompt # <<>>
                    /\ resp'.id = p.id
                    /\ \A r \in prompts : r.id # p.id
       /\ prompts' \ prompts # {}
            => /\ resp'.req.kind = "generate"
               /\ resp'.status = 200
       /\ \A s \in Slots :
            (reqs[s].pc = "gen_insert" /\ Responds(s) /\ resp'.fault)
             => /\ Usable(reqs[s].tmp.response)
                /\ resp'.status = 500
                /\ prompts' = prompts
      ]_vars

\* ann's request, with no category, an idea with spaces around it and a
\* body naming bob's id, has just been answered 200, and the store holds
\* her row with category "General" and the idea without the spaces
C16_Witness ==
    /\ resp.req.kind = "generate"
    /\ resp.status = 200
    /\ resp.req.user.userId = 1
    /\ resp.req.in.userId = 2
    /\ resp.req.in.category = ""
    /\ resp.req.in.idea = Str(<<Space, "b", Space>>)
    /\ \E p \in prompts : /\ p.id = resp.id
                          /\ p.user_id = 1
                          /\ p.category = "General"
                          /\ p.idea = <<"b">>
                          /\ p.generated_prompt = resp.prompt

\* C17: a DELETE by a user of a stored prompt of theirs is answered 200
\* and removes that one row: every other row of prompts, of the same and
\* of other users, stays as it is, as do registered_users and
\* login_history.  A DELETE of an id no row of the user has, because the
\* row was deleted before or the id was never given out, is answered 404
\* and changes nothing.  A row once removed does not come back, new rows
\* taking ids never used, and a listing holds only rows in the store, so
\* the owner's later listings do not hold the deleted row.
C17_DeleteRemovesOnlyTarget ==
    [][/\ \A s \in Slots :
            (reqs[s].pc = "del_query" /\ Responds(s) /\ ~resp'.fault)
             => LET q == reqs[s]
                    target == {p \in prompts :
                                 /\ p.id = q.in.id
                                 /\ p.user_id = Presented(q).userId}
                IN  /\ Cardinality(target) <= 1
                    /\ prompts' = prompts \ target
                    /\ resp'.status = IF target = {} THEN 404 ELSE 200
                    /\ UNCHANGED <<users, login_history, pendingLog,
                                   nextPromptId>>
       /\ \A s \in Slots :
            (reqs[s].pc = "del_query" /\ Responds(s) /\ resp'.fault)
             => /\ resp'.status = 500
                /\ UNCHANGED <<users, prompts, login_history, pendingLog>>
       /\ \A p \in prompts' \ prompts :
            /\ p.id = nextPromptId
            /\ nextPromptId' > nextPromptId
       /\ nextPromptId' >= nextPromptId
       /\ \A p \in prompts' : p.id < nextPromptId'
       /\ (resp' # NoResp /\ resp'.req.kind = "list")
            => RowsOf(resp'.rows) \subseteq prompts'
      ]_vars

\* ann's second DELETE of her prompt 1 has just been answered 404: the row
\* is gone, bob's row is in the store
C17_Witness ==
    /\ resp.req.kind = "delete"
    /\ resp.status = 404
    /\ resp.req.user.userId = 1
    /\ resp.req.in.id = 1
    /\ \A p \in prompts : p.id # 1
    /\ \E p \in prompts : p.user_id = 2
    /\ users = SeedUsers

---------------------------------------------------------------------------
(* Properties of the race flow *)

\* the stored prompt a pending DELETE q would remove
TargetOf(q) == {p \in prompts : p.id = q.in.id /\ p.user_id = q.user.userId}

\* C18: of two DELETE requests in flight together for the same stored
\* prompt, both with its owner's token, the one whose statement the
\* storage runs first is answered 200 and removes the prompt while the
\* other is still pending; a pending DELETE whose prompt is no longer in
\* the store is answered 404 and changes nothing; and a removed prompt does
\* not return.  So one is answered 200, the other 404 (500 for a request
\* whose statement itself fails), in either order, and the prompt is gone
\* afterward.  A listing in flight with a deletion returns whole rows that
\* are in the store when its SELECT runs: the prompt as it was stored, or
\* no row for it.
C18_ConcurrentDeletes ==
    [][/\ \A s, t \in Slots :
            (/\ s # t
             /\ reqs[s].pc = "del_query"
             /\ reqs[t].pc = "del_query"
             /\ reqs[s].in.id = reqs[t].in.id
             /\ reqs[s].user.userId = reqs[t].user.userId
             /\ TargetOf(reqs[s]) # {}
             /\ Responds(s)
             /\ ~resp'.fault)
             => /\ resp'.status = 200
                /\ prompts' = prompts \ TargetOf(reqs[s])
                /\ reqs'[t] = reqs[t]
                /\ \A p \in prompts' : p.id # reqs[t].in.id
       /\ \A t \in Slots :
            (/\ reqs[t].pc = "del_query"
             /\ TargetOf(reqs[t]) = {}
             /\ Responds(t))
             => /\ resp'.status = IF resp'.fault THEN 500 ELSE 404
                /\ prompts' = prompts
       /\ prompts' \subseteq prompts
       /\ \A s \in Slots :
            (reqs[s].pc = "list_select" /\ Responds(s) /\ ~resp'.fault)
             => /\ RowsOf(resp'.rows) = promptsOf(Presented(reqs[s]).userId)
                /\ RowsOf(resp'.rows) \subseteq SeedPrompts
      ]_vars

\* of ann's two DELETE requests for her prompt 1 one has just been
\* answered 200 and the other is still pending, the prompt being gone
C18_Witness ==
    /\ resp.req.kind = "delete"
    /\ resp.status = 200
    /\ resp.req.user.userId = 1
    /\ resp.req.in.id = 1
    /\ \A p \in prompts : p.id # 1
    /\ \E t \in Slots : /\ reqs[t].pc = "del_query"
                        /\ reqs[t].in.id = 1
                        /\ reqs[t].user.userId = 1

====
